---- MODULE Spec2Model ----
(***************************************************************************)
(* Patient-records application: the database schema, its row-level         *)
(* security policies and triggers (supabase/migrations), and the page      *)
(* queries that run against it.                                            *)
(***************************************************************************)
EXTENDS Integers, FiniteSets, Sequences, TLC

VARIABLES
    auth_users,       \* ids of the rows of auth.users
    profiles,         \* rows of public.profiles
    patients,         \* rows of public.patients
    patient_records,  \* rows of public.patient_records
    now,              \* value of now() for the next statement
    resp,             \* the last statement and the database's answer to it
    user,             \* useAuth().user of the browser session (NULL: signed out)
    route,            \* current location of the browser session
    page,             \* state of the mounted page component
    sidebar,          \* position of AppSidebar.handleSignOut
    requests          \* form submissions awaiting the answer of the backend

vars ==
    <<auth_users, profiles, patients, patient_records, now, resp, user, route, page, sidebar,
      requests>>
dbvars == <<auth_users, profiles, patients, patient_records, now, resp>>
appvars == <<user, route, page, sidebar, requests>>

----------------------------------------------------------------------------
(* Bounds of the model *)

MaxClock == 2

Time == 0..MaxClock

NULL == "NULL"
Users == {"u1", "u2"}
Callers == Users \cup {NULL}
PatientIds == {"p1", "p2"}
RecordIds == {"r1", "r2"}
Names == {"Ana", "Bia"}

\* a column a statement may leave out is given as a set: {} (left out) or {v}
Opt(S) == {{}} \cup {{v} : v \in S}
Given(o) == o # {}
Val(o) == CHOOSE v \in o : TRUE
\* the SET lists that assign at most one column
OneColumn(S) == {s \in S : Cardinality({c \in DOMAIN s : Given(s[c])}) <= 1}

----------------------------------------------------------------------------
(* SQL three-valued logic *)

SqlEq(a, b) == IF a = NULL \/ b = NULL THEN "unknown" ELSE IF a = b THEN "true" ELSE "false"
SqlIn(a, S) == IF a = NULL THEN "unknown" ELSE IF a \in S THEN "true" ELSE "false"

\* a policy admits a row only when its expression is true
PolicyPasses(v) == v = "true"
\* a CHECK constraint rejects a row only when its expression is false
CheckPasses(v) == v # "false"

----------------------------------------------------------------------------
(* Column constraints *)

PatientStatuses == {"active", "inactive", "discharged"}
SessionTypes == {"individual", "couple", "family", "group"}

\* the values the forms offer: <SelectItem value=...>
NewPatientStatusOptions == {"active", "inactive", "discharged"}
NewRecordSessionTypeOptions == {"individual", "couple", "family", "group"}

PatientsStatusCheck(row) == CheckPasses(SqlIn(row.status, PatientStatuses))
RecordsSessionTypeCheck(row) == CheckPasses(SqlIn(row.session_type, SessionTypes))

----------------------------------------------------------------------------
(* Row-level security policies; uid is auth.uid() *)

\* faulty variants of the policies below, used to test the properties
AnyAuthenticated(uid, row) == uid # NULL
InsertAnyOwner(uid, row) == uid # NULL /\ row.psychologist_id # NULL
DeleteAnyAuthenticated(uid, row) == uid # NULL
UpdateCheckTrue(uid, new) == TRUE
PublicRows(uid, row) == TRUE
OwnProfile(uid, row) == uid # NULL /\ uid = row.id

ProfilesSelectPolicy(uid, row) == PolicyPasses(SqlEq(uid, row.id))
ProfilesUpdatePolicy(uid, row) == PolicyPasses(SqlEq(uid, row.id))
ProfilesInsertPolicy(uid, row) == PolicyPasses(SqlEq(uid, row.id))
\* RLS is enabled and no policy is defined FOR DELETE: no row qualifies
ProfilesDeletePolicy(uid, row) == FALSE

PatientsSelectPolicy(uid, row) == PolicyPasses(SqlEq(uid, row.psychologist_id))
PatientsInsertPolicy(uid, row) == PolicyPasses(SqlEq(uid, row.psychologist_id))
PatientsUpdatePolicy(uid, row) == PolicyPasses(SqlEq(uid, row.psychologist_id))
PatientsDeletePolicy(uid, row) == PolicyPasses(SqlEq(uid, row.psychologist_id))

RecordsSelectPolicy(uid, row) == PolicyPasses(SqlEq(uid, row.psychologist_id))
RecordsInsertPolicy(uid, row) == PolicyPasses(SqlEq(uid, row.psychologist_id))
RecordsUpdatePolicy(uid, row) == PolicyPasses(SqlEq(uid, row.psychologist_id))
RecordsDeletePolicy(uid, row) == PolicyPasses(SqlEq(uid, row.psychologist_id))

----------------------------------------------------------------------------
(* Triggers *)

\* faulty variant: the trigger is not attached
TriggerNotAttached(new) == new

\* BEFORE UPDATE ... FOR EACH ROW: NEW.updated_at = now()
update_updated_at_column(new) == [new EXCEPT !.updated_at = now]

\* the literal of COALESCE's second argument (written here without the accent)
DefaultFullName == "Psicologo(a)"

\* AFTER INSERT ON auth.users: the profile row inserted for NEW
handle_new_user(id, meta) ==
    [id |-> id,
     full_name |-> IF Given(meta) THEN Val(meta) ELSE DefaultFullName,
     updated_at |-> now]

----------------------------------------------------------------------------
(* The answer of the database to a statement *)

Response(op, table, caller, err, rows) ==
    [op |-> op, table |-> table, caller |-> caller, err |-> err, rows |-> rows]

\* WHERE id = v, or no WHERE clause
Matches(where, row) == Given(where) => row.id = Val(where)

Ids(rows) == {r.id : r \in rows}

----------------------------------------------------------------------------
(* public.patients *)

\* the row an INSERT builds: column defaults fill what the statement leaves out
PatientsNewRow(uid, p) ==
    [id |-> p.id,
     psychologist_id |-> p.psychologist_id,
     status |-> IF Given(p.status) THEN Val(p.status) ELSE "active",
     created_at |-> now,
     updated_at |-> IF Given(p.updated_at) THEN Val(p.updated_at) ELSE now,
     inserted_by |-> uid]

PatientsInsertError(uid, row) ==
    IF ~PatientsInsertPolicy(uid, row) THEN "rls"
    ELSE IF row.psychologist_id = NULL THEN "notnull"
    ELSE IF ~PatientsStatusCheck(row) THEN "check"
    ELSE IF row.id \in Ids(patients) THEN "unique"
    ELSE IF row.psychologist_id \notin auth_users THEN "fk"
    ELSE "none"

PatientsInsert(uid, p) ==
    LET row == PatientsNewRow(uid, p)
        err == PatientsInsertError(uid, row)
    IN  /\ patients' = IF err = "none" THEN patients \cup {row} ELSE patients
        /\ resp' = Response("insert", "patients", uid, err,
                            IF err = "none" THEN {row} ELSE {})
        /\ UNCHANGED <<auth_users, profiles, patient_records, now>>

PatientsSelectRows(uid, where) ==
    {r \in patients : Matches(where, r) /\ PatientsSelectPolicy(uid, r)}

PatientsSelect(uid, where) ==
    /\ resp' = Response("select", "patients", uid, "none",
                        PatientsSelectRows(uid, where))
    /\ UNCHANGED <<auth_users, profiles, patients, patient_records, now>>

\* the rows an UPDATE may touch: those the USING clause admits
PatientsUpdateTargets(uid, where) ==
    {r \in patients : Matches(where, r) /\ PatientsUpdatePolicy(uid, r)}

\* SET applied to a row, then the BEFORE UPDATE trigger
PatientsSetRow(r, s) ==
    update_updated_at_column(
        [r EXCEPT !.id = IF Given(s.id) THEN Val(s.id) ELSE @,
                  !.psychologist_id = IF Given(s.psychologist_id) THEN Val(s.psychologist_id) ELSE @,
                  !.status = IF Given(s.status) THEN Val(s.status) ELSE @,
                  !.updated_at = IF Given(s.updated_at) THEN Val(s.updated_at) ELSE @])

\* an UPDATE policy with USING and no WITH CHECK: USING is also applied to the new row
PatientsUpdateCheck(uid, new) == PatientsUpdatePolicy(uid, new)

PatientsUpdateError(uid, targets, new) ==
    LET result == (patients \ targets) \cup new
    IN  IF \E n \in new : ~PatientsUpdateCheck(uid, n) THEN "rls"
        ELSE IF \E n \in new : n.psychologist_id = NULL THEN "notnull"
        ELSE IF \E n \in new : ~PatientsStatusCheck(n) THEN "check"
        ELSE IF Cardinality(Ids(result)) # Cardinality(patients) THEN "unique"
        ELSE IF \E n \in new : n.psychologist_id \notin auth_users THEN "fk"
        ELSE IF \E c \in patient_records : c.patient_id \notin Ids(result) THEN "fk"
        ELSE "none"

PatientsUpdate(uid, where, s) ==
    LET targets == PatientsUpdateTargets(uid, where)
        new == {PatientsSetRow(r, s) : r \in targets}
        err == PatientsUpdateError(uid, targets, new)
    IN  /\ patients' = IF err = "none" THEN (patients \ targets) \cup new ELSE patients
        /\ resp' = Response("update", "patients", uid, err,
                            IF err = "none" THEN new ELSE {})
        /\ UNCHANGED <<auth_users, profiles, patient_records, now>>

PatientsDeleteTargets(uid, where) ==
    {r \in patients : Matches(where, r) /\ PatientsDeletePolicy(uid, r)}

\* patient_records.patient_id REFERENCES patients(id) ON DELETE CASCADE
\* a foreign key without ON DELETE CASCADE that lets the parent go
NoCascade(gone) == patient_records

CascadePatients(gone) == {c \in patient_records : c.patient_id \notin Ids(gone)}

PatientsDelete(uid, where) ==
    LET targets == PatientsDeleteTargets(uid, where)
    IN  /\ patients' = patients \ targets
        /\ patient_records' = CascadePatients(targets)
        /\ resp' = Response("delete", "patients", uid, "none", targets)
        /\ UNCHANGED <<auth_users, profiles, now>>

----------------------------------------------------------------------------
(* public.patient_records *)

RecordsNewRow(uid, p) ==
    [id |-> p.id,
     patient_id |-> p.patient_id,
     psychologist_id |-> p.psychologist_id,
     session_type |-> IF Given(p.session_type) THEN Val(p.session_type) ELSE "individual",
     updated_at |-> IF Given(p.updated_at) THEN Val(p.updated_at) ELSE now,
     inserted_by |-> uid]

RecordsInsertError(uid, row) ==
    IF ~RecordsInsertPolicy(uid, row) THEN "rls"
    ELSE IF row.psychologist_id = NULL THEN "notnull"
    ELSE IF ~RecordsSessionTypeCheck(row) THEN "check"
    ELSE IF row.id \in Ids(patient_records) THEN "unique"
    ELSE IF row.patient_id \notin Ids(patients) THEN "fk"
    ELSE IF row.psychologist_id \notin auth_users THEN "fk"
    ELSE "none"

RecordsInsert(uid, p) ==
    LET row == RecordsNewRow(uid, p)
        err == RecordsInsertError(uid, row)
    IN  /\ patient_records' = IF err = "none" THEN patient_records \cup {row} ELSE patient_records
        /\ resp' = Response("insert", "patient_records", uid, err,
                            IF err = "none" THEN {row} ELSE {})
        /\ UNCHANGED <<auth_users, profiles, patients, now>>

RecordsSelectRows(uid, where) ==
    {r \in patient_records : Matches(where, r) /\ RecordsSelectPolicy(uid, r)}

RecordsSelect(uid, where) ==
    /\ resp' = Response("select", "patient_records", uid, "none",
                        RecordsSelectRows(uid, where))
    /\ UNCHANGED <<auth_users, profiles, patients, patient_records, now>>

RecordsUpdateTargets(uid, where) ==
    {r \in patient_records : Matches(where, r) /\ RecordsUpdatePolicy(uid, r)}

RecordsSetRow(r, s) ==
    update_updated_at_column(
        [r EXCEPT !.id = IF Given(s.id) THEN Val(s.id) ELSE @,
                  !.patient_id = IF Given(s.patient_id) THEN Val(s.patient_id) ELSE @,
                  !.psychologist_id = IF Given(s.psychologist_id) THEN Val(s.psychologist_id) ELSE @,
                  !.session_type = IF Given(s.session_type) THEN Val(s.session_type) ELSE @,
                  !.updated_at = IF Given(s.updated_at) THEN Val(s.updated_at) ELSE @])

RecordsUpdateCheck(uid, new) == RecordsUpdatePolicy(uid, new)

RecordsUpdateError(uid, targets, new) ==
    LET result == (patient_records \ targets) \cup new
    IN  IF \E n \in new : ~RecordsUpdateCheck(uid, n) THEN "rls"
        ELSE IF \E n \in new : n.psychologist_id = NULL THEN "notnull"
        ELSE IF \E n \in new : ~RecordsSessionTypeCheck(n) THEN "check"
        ELSE IF Cardinality(Ids(result)) # Cardinality(patient_records) THEN "unique"
        ELSE IF \E n \in new : n.patient_id \notin Ids(patients) THEN "fk"
        ELSE IF \E n \in new : n.psychologist_id \notin auth_users THEN "fk"
        ELSE "none"

RecordsUpdate(uid, where, s) ==
    LET targets == RecordsUpdateTargets(uid, where)
        new == {RecordsSetRow(r, s) : r \in targets}
        err == RecordsUpdateError(uid, targets, new)
    IN  /\ patient_records' = IF err = "none" THEN (patient_records \ targets) \cup new
                              ELSE patient_records
        /\ resp' = Response("update", "patient_records", uid, err,
                            IF err = "none" THEN new ELSE {})
        /\ UNCHANGED <<auth_users, profiles, patients, now>>

RecordsDeleteTargets(uid, where) ==
    {r \in patient_records : Matches(where, r) /\ RecordsDeletePolicy(uid, r)}

RecordsDelete(uid, where) ==
    LET targets == RecordsDeleteTargets(uid, where)
    IN  /\ patient_records' = patient_records \ targets
        /\ resp' = Response("delete", "patient_records", uid, "none", targets)
        /\ UNCHANGED <<auth_users, profiles, patients, now>>

----------------------------------------------------------------------------
(* public.profiles *)

ProfilesNewRow(uid, p) ==
    [id |-> p.id,
     full_name |-> IF Given(p.full_name) THEN Val(p.full_name) ELSE NULL,
     updated_at |-> IF Given(p.updated_at) THEN Val(p.updated_at) ELSE now]

ProfilesInsertError(uid, row) ==
    IF ~ProfilesInsertPolicy(uid, row) THEN "rls"
    ELSE IF row.id = NULL \/ row.full_name = NULL THEN "notnull"
    ELSE IF row.id \in Ids(profiles) THEN "unique"
    ELSE IF row.id \notin auth_users THEN "fk"
    ELSE "none"

ProfilesInsert(uid, p) ==
    LET row == ProfilesNewRow(uid, p)
        err == ProfilesInsertError(uid, row)
    IN  /\ profiles' = IF err = "none" THEN profiles \cup {row} ELSE profiles
        /\ resp' = Response("insert", "profiles", uid, err,
                            IF err = "none" THEN {row} ELSE {})
        /\ UNCHANGED <<auth_users, patients, patient_records, now>>

ProfilesSelectRows(uid, where) ==
    {r \in profiles : Matches(where, r) /\ ProfilesSelectPolicy(uid, r)}

ProfilesSelect(uid, where) ==
    /\ resp' = Response("select", "profiles", uid, "none",
                        ProfilesSelectRows(uid, where))
    /\ UNCHANGED <<auth_users, profiles, patients, patient_records, now>>

ProfilesUpdateTargets(uid, where) ==
    {r \in profiles : Matches(where, r) /\ ProfilesUpdatePolicy(uid, r)}

ProfilesSetRow(r, s) ==
    update_updated_at_column(
        [r EXCEPT !.id = IF Given(s.id) THEN Val(s.id) ELSE @,
                  !.full_name = IF Given(s.full_name) THEN Val(s.full_name) ELSE @,
                  !.updated_at = IF Given(s.updated_at) THEN Val(s.updated_at) ELSE @])

ProfilesUpdateCheck(uid, new) == ProfilesUpdatePolicy(uid, new)

ProfilesUpdateError(uid, targets, new) ==
    LET result == (profiles \ targets) \cup new
    IN  IF \E n \in new : ~ProfilesUpdateCheck(uid, n) THEN "rls"
        ELSE IF \E n \in new : n.id = NULL \/ n.full_name = NULL THEN "notnull"
        ELSE IF Cardinality(Ids(result)) # Cardinality(profiles) THEN "unique"
        ELSE IF \E n \in new : n.id \notin auth_users THEN "fk"
        ELSE "none"

ProfilesUpdate(uid, where, s) ==
    LET targets == ProfilesUpdateTargets(uid, where)
        new == {ProfilesSetRow(r, s) : r \in targets}
        err == ProfilesUpdateError(uid, targets, new)
    IN  /\ profiles' = IF err = "none" THEN (profiles \ targets) \cup new ELSE profiles
        /\ resp' = Response("update", "profiles", uid, err,
                            IF err = "none" THEN new ELSE {})
        /\ UNCHANGED <<auth_users, patients, patient_records, now>>

ProfilesDeleteTargets(uid, where) ==
    {r \in profiles : Matches(where, r) /\ ProfilesDeletePolicy(uid, r)}

ProfilesDelete(uid, where) ==
    LET targets == ProfilesDeleteTargets(uid, where)
    IN  /\ profiles' = profiles \ targets
        /\ resp' = Response("delete", "profiles", uid, "none", targets)
        /\ UNCHANGED <<auth_users, patients, patient_records, now>>

----------------------------------------------------------------------------
(* auth.users, maintained by the identity service *)

\* INSERT INTO auth.users fires on_auth_user_created in the same transaction
SignUp(id, meta) ==
    LET profile == handle_new_user(id, meta)
        err == IF id \in auth_users \/ id \in Ids(profiles) THEN "unique"
               ELSE IF profile.full_name = NULL THEN "notnull"
               ELSE "none"
    IN  /\ auth_users' = IF err = "none" THEN auth_users \cup {id} ELSE auth_users
        /\ profiles' = IF err = "none" THEN profiles \cup {profile} ELSE profiles
        /\ resp' = Response("insert", "auth.users", "service", err,
                            IF err = "none" THEN {profile} ELSE {})
        /\ UNCHANGED <<patients, patient_records, now>>

\* DELETE FROM auth.users: every REFERENCES auth.users(id) is ON DELETE CASCADE
DeleteUser(id) ==
    LET gone == {r \in patients : r.psychologist_id = id}
    IN  /\ id \in auth_users
        /\ auth_users' = auth_users \ {id}
        /\ profiles' = {r \in profiles : r.id # id}
        /\ patients' = patients \ gone
        /\ patient_records' = {c \in CascadePatients(gone) : c.psychologist_id # id}
        /\ resp' = Response("delete", "auth.users", "service", "none", {})
        /\ UNCHANGED now

\* time passes between statements
Tick ==
    /\ now < MaxClock
    /\ now' = now + 1
    /\ UNCHANGED <<auth_users, profiles, patients, patient_records, resp>>

----------------------------------------------------------------------------
(* Initial state: the schema has just been migrated, the browser is signed out *)

InitDb ==
    /\ auth_users = {}
    /\ profiles = {}
    /\ patients = {}
    /\ patient_records = {}
    /\ now = 0
    /\ resp = Response("none", "none", NULL, "none", {})

\* the location: the route pattern and its :id parameter
Route(path, id) == [path |-> path, id |-> id]

\* the state a page component has when it mounts
Mount(r) ==
    IF r.path = "/dashboard" THEN
        [name |-> "Dashboard", loading |-> TRUE, pc |-> "idle",
         patients |-> <<>>,
         stats |-> [totalPatients |-> 0, activePatients |-> 0, totalRecords |-> 0],
         patientsData |-> <<>>, totalPatients |-> {}, activePatients |-> {}]
    ELSE IF r.path = "/patients" THEN
        [name |-> "Patients", loading |-> TRUE, pc |-> "idle",
         patients |-> <<>>, filteredPatients |-> <<>>]
    ELSE IF r.path = "/patients/:id" THEN
        [name |-> "PatientDetail", id |-> r.id, loading |-> TRUE, pc |-> "idle",
         patient |-> {}, records |-> <<>>, patientRes |-> {}, recordsRes |-> {},
         toast |-> "none",
         isNewRecordOpen |-> FALSE, savingRecord |-> FALSE,
         newRecord |-> [session_type |-> "individual", main_complaint |-> <<>>]]
    ELSE IF r.path = "/patients/new" THEN
        [name |-> "NewPatient", loading |-> FALSE,
         formData |-> [full_name |-> <<>>, phone |-> <<>>, status |-> "active"],
         toast |-> "none"]
    ELSE [name |-> "Auth", isLogin |-> TRUE, email |-> "", password |-> "", fullName |-> "",
          loading |-> FALSE, toast |-> "none"]

PageName(r) ==
    IF r.path = "/dashboard" THEN "Dashboard"
    ELSE IF r.path = "/patients" THEN "Patients"
    ELSE IF r.path = "/patients/:id" THEN "PatientDetail"
    ELSE IF r.path = "/patients/new" THEN "NewPatient"
    ELSE "Auth"

InitApp ==
    /\ user = NULL
    /\ route = Route("/auth", NULL)
    /\ page = Mount(Route("/auth", NULL))
    /\ sidebar = "idle"
    /\ requests = {}

Init == InitDb /\ InitApp

----------------------------------------------------------------------------
(* The browser session: routing, the auth wrapper and the sidebar *)

Range(f) == {f[i] : i \in DOMAIN f}

\* the orders in which a query without a modelled sort key may return its rows
RECURSIVE Orderings(_)
Orderings(S) ==
    IF S = {} THEN {<<>>}
    ELSE UNION {{Append(f, x) : f \in Orderings(S \ {x})} : x \in S}

Take(f, n) == [i \in 1..(IF Len(f) < n THEN Len(f) ELSE n) |-> f[i]]

\* the page component rendered is the one of the current location
Mounted == page.name = PageName(route) /\ (page.name = "PatientDetail" => page.id = route.id)

\* a pending submission whose component has gone: "unmounted" when the router
\* replaced the page (the promise still settles and its handler still runs, its
\* setState calls have no effect), "unloaded" when the document was replaced
\* (the request may still reach the backend, no handler runs)
Orphaned(reqs, how) ==
    {[q EXCEPT !.owner = IF how = "unloaded" \/ @ = "mounted" THEN how ELSE @] : q \in reqs}

\* the router renders the element of the new location; the old page unmounts
Render ==
    /\ ~Mounted
    /\ page' = Mount(route)
    /\ requests' = Orphaned(requests, "unmounted")
    /\ UNCHANGED <<user, route, sidebar>>
    /\ UNCHANGED dbvars

\* a location typed into the browser: the application loads at that route
OpenUrl(r) ==
    /\ route' = r
    /\ page' = Mount(r)
    /\ sidebar' = "idle"
    /\ requests' = Orphaned(requests, "unloaded")
    /\ UNCHANGED user
    /\ UNCHANGED dbvars

\* useAuth().signIn resolving with a session for an existing user
signIn(u) ==
    /\ Mounted /\ page.name = "Auth"
    /\ user = NULL
    /\ u \in auth_users
    /\ user' = u
    /\ UNCHANGED <<route, page, sidebar>>
    /\ UNCHANGED <<dbvars, requests>>

\* faulty variant: the effect navigates without testing user
AuthEffectUnconditional == TRUE

\* if (user)
AuthEffectCondition == user # NULL

\* the Auth page is rendered with a value of user for which its effect navigates
AuthEffectPending == Mounted /\ page.name = "Auth" /\ AuthEffectCondition

\* Auth: useEffect(() => { if (user) navigate('/dashboard') }, [user, navigate])
AuthRedirect ==
    /\ AuthEffectPending
    /\ route' = Route("/dashboard", NULL)
    /\ UNCHANGED <<user, page, sidebar>>
    /\ UNCHANGED <<dbvars, requests>>

\* AppSidebar menu: onClick={() => navigate(item.url)}
SidebarNavigate(path) ==
    /\ Mounted /\ page.name # "Auth"
    /\ route' = Route(path, NULL)
    /\ UNCHANGED <<user, page, sidebar>>
    /\ UNCHANGED <<dbvars, requests>>

\* AppSidebar.handleSignOut: await signOut() ...
HandleSignOut ==
    /\ Mounted /\ page.name # "Auth"
    /\ sidebar = "idle"
    /\ sidebar' = "awaiting"
    /\ UNCHANGED <<user, route, page>>
    /\ UNCHANGED <<dbvars, requests>>

\* useAuth().signOut resolving: the session is gone
signOut ==
    /\ sidebar = "awaiting"
    /\ user' = NULL
    /\ sidebar' = "resolved"
    /\ UNCHANGED <<route, page>>
    /\ UNCHANGED <<dbvars, requests>>

\* ... navigate('/auth')
HandleSignOutNavigate ==
    /\ sidebar = "resolved"
    /\ route' = Route("/auth", NULL)
    /\ sidebar' = "idle"
    /\ UNCHANGED <<user, page>>
    /\ UNCHANGED <<dbvars, requests>>

----------------------------------------------------------------------------
(* Dashboard *)

RecentLimit == 5

\* faulty variant: the query without .limit(5)
AllPatientsRecentFirst(uid) ==
    {f \in Orderings(PatientsSelectRows(uid, {})) :
        \A i \in 1..(Len(f) - 1) : f[i].created_at >= f[i + 1].created_at}

\* .from('patients').select('*').order('created_at', {ascending: false}).limit(5)
RecentPatients(uid) ==
    {Take(f, RecentLimit) :
        f \in {g \in Orderings(PatientsSelectRows(uid, {})) :
                  \A i \in 1..(Len(g) - 1) : g[i].created_at >= g[i + 1].created_at}}

\* useEffect(() => { if (user) fetchDashboardData() }, [user])
DashboardEffect ==
    /\ Mounted /\ page.name = "Dashboard" /\ page.pc = "idle"
    /\ user # NULL
    /\ page' = [page EXCEPT !.pc = "patients"]
    /\ UNCHANGED <<user, route, sidebar>>
    /\ UNCHANGED <<dbvars, requests>>

\* first await: the recent patients; an error is thrown to the catch block
FetchDashboardPatients(ok) ==
    /\ Mounted /\ page.name = "Dashboard" /\ page.pc = "patients"
    /\ \/ /\ ok
          /\ \E data \in RecentPatients(user) :
                page' = [page EXCEPT !.patientsData = data, !.pc = "totalPatients"]
       \/ /\ ~ok
          /\ page' = [page EXCEPT !.loading = FALSE, !.pc = "done"]
    /\ UNCHANGED <<user, route, sidebar>>
    /\ UNCHANGED <<dbvars, requests>>

\* count || 0: a null count (the query failed) is shown as zero
OrZero(count) == IF count = {} THEN 0 ELSE CHOOSE n \in count : TRUE

\* second await: select('*', {count: 'exact', head: true}); its error is not read,
\* the count of a failed query is null
FetchDashboardTotal(ok) ==
    /\ Mounted /\ page.name = "Dashboard" /\ page.pc = "totalPatients"
    /\ page' = [page EXCEPT
                  !.totalPatients =
                      IF ok THEN {Cardinality(PatientsSelectRows(user, {}))} ELSE {},
                  !.pc = "activePatients"]
    /\ UNCHANGED <<user, route, sidebar>>
    /\ UNCHANGED <<dbvars, requests>>

\* third await: the same count with .eq('status', 'active')
FetchDashboardActive(ok) ==
    /\ Mounted /\ page.name = "Dashboard" /\ page.pc = "activePatients"
    /\ page' = [page EXCEPT
                  !.activePatients =
                      IF ok THEN {Cardinality({r \in PatientsSelectRows(user, {}) :
                                                  SqlEq(r.status, "active") = "true"})}
                      ELSE {},
                  !.pc = "totalRecords"]
    /\ UNCHANGED <<user, route, sidebar>>
    /\ UNCHANGED <<dbvars, requests>>

\* fourth await: the count of patient_records; then setPatients, setStats, setLoading
FetchDashboardRecords(ok) ==
    /\ Mounted /\ page.name = "Dashboard" /\ page.pc = "totalRecords"
    /\ page' = [page EXCEPT
                  !.patients = page.patientsData,
                  !.stats = [totalPatients |-> OrZero(page.totalPatients),
                             activePatients |-> OrZero(page.activePatients),
                             totalRecords |->
                                 OrZero(IF ok THEN {Cardinality(RecordsSelectRows(user, {}))}
                                        ELSE {})],
                  !.loading = FALSE,
                  !.pc = "done"]
    /\ UNCHANGED <<user, route, sidebar>>
    /\ UNCHANGED <<dbvars, requests>>

\* a card of the recent list: onClick={() => navigate(`/patients/${patient.id}`)}
DashboardOpenPatient(i) ==
    /\ Mounted /\ page.name = "Dashboard" /\ ~page.loading
    /\ i \in DOMAIN page.patients
    /\ route' = Route("/patients/:id", page.patients[i].id)
    /\ UNCHANGED <<user, page, sidebar>>
    /\ UNCHANGED <<dbvars, requests>>

----------------------------------------------------------------------------
(* Patients *)

\* useEffect(() => { if (user) fetchPatients() }, [user])
PatientsEffect ==
    /\ Mounted /\ page.name = "Patients" /\ page.pc = "idle"
    /\ user # NULL
    /\ page' = [page EXCEPT !.pc = "fetching"]
    /\ UNCHANGED <<user, route, sidebar>>
    /\ UNCHANGED <<dbvars, requests>>

\* .from('patients').select('*').order('full_name'); the empty search term keeps all
FetchPatients(ok) ==
    /\ Mounted /\ page.name = "Patients" /\ page.pc = "fetching"
    /\ \/ /\ ok
          /\ \E data \in Orderings(PatientsSelectRows(user, {})) :
                page' = [page EXCEPT !.patients = data, !.filteredPatients = data,
                                     !.loading = FALSE, !.pc = "done"]
       \/ /\ ~ok
          /\ page' = [page EXCEPT !.loading = FALSE, !.pc = "done"]
    /\ UNCHANGED <<user, route, sidebar>>
    /\ UNCHANGED <<dbvars, requests>>

\* a card of the list: onClick={() => navigate(`/patients/${patient.id}`)}
PatientsOpenPatient(i) ==
    /\ Mounted /\ page.name = "Patients" /\ ~page.loading
    /\ i \in DOMAIN page.filteredPatients
    /\ route' = Route("/patients/:id", page.filteredPatients[i].id)
    /\ UNCHANGED <<user, page, sidebar>>
    /\ UNCHANGED <<dbvars, requests>>

----------------------------------------------------------------------------
(* PatientDetail *)

\* useEffect(() => { if (user && id) fetchPatientData() }, [user, id])
PatientDetailEffect ==
    /\ Mounted /\ page.name = "PatientDetail" /\ page.pc = "idle"
    /\ user # NULL
    /\ page' = [page EXCEPT !.pc = "fetching"]
    /\ UNCHANGED <<user, route, sidebar>>
    /\ UNCHANGED <<dbvars, requests>>

\* Promise.all, first request: .from('patients').select('*').eq('id', id).maybeSingle()
FetchPatientQuery(ok) ==
    /\ Mounted /\ page.name = "PatientDetail" /\ page.pc = "fetching"
    /\ page.patientRes = {}
    /\ page' = [page EXCEPT !.patientRes =
                  {[error |-> ~ok,
                    data |-> IF ok THEN PatientsSelectRows(user, {page.id}) ELSE {}]}]
    /\ UNCHANGED <<user, route, sidebar>>
    /\ UNCHANGED <<dbvars, requests>>

\* Promise.all, second request: .from('patient_records').select('*').eq('patient_id', id)
FetchRecordsQuery(ok) ==
    /\ Mounted /\ page.name = "PatientDetail" /\ page.pc = "fetching"
    /\ page.recordsRes = {}
    /\ \E data \in Orderings({r \in RecordsSelectRows(user, {}) : r.patient_id = page.id}) :
          page' = [page EXCEPT !.recordsRes =
                      {[error |-> ~ok, data |-> IF ok THEN data ELSE <<>>]}]
    /\ UNCHANGED <<user, route, sidebar>>
    /\ UNCHANGED <<dbvars, requests>>

\* a handler that takes every answer for a patient
NeverMissing(patientRes) == FALSE

\* if (!patientRes.data)
MissingPatient(patientRes) == patientRes.data = {}

\* both requests have answered: the rest of fetchPatientData
FetchPatientDataResolve ==
    /\ Mounted /\ page.name = "PatientDetail" /\ page.pc = "fetching"
    /\ page.patientRes # {} /\ page.recordsRes # {}
    /\ LET patientRes == Val(page.patientRes)
           recordsRes == Val(page.recordsRes)
       IN  IF patientRes.error \/ recordsRes.error
           THEN /\ page' = [page EXCEPT !.toast = "Erro", !.loading = FALSE, !.pc = "done"]
                /\ UNCHANGED route
           ELSE IF MissingPatient(patientRes)
           THEN /\ route' = Route("/patients", NULL)
                /\ page' = [page EXCEPT !.loading = FALSE, !.pc = "done"]
           ELSE /\ page' = [page EXCEPT !.patient = patientRes.data,
                                        !.records = recordsRes.data,
                                        !.loading = FALSE, !.pc = "done"]
                /\ UNCHANGED route
    /\ UNCHANGED <<user, sidebar>>
    /\ UNCHANGED <<dbvars, requests>>

\* the back button: onClick={() => navigate('/patients')}
PatientDetailBack ==
    /\ Mounted /\ page.name = "PatientDetail" /\ ~page.loading /\ page.patient # {}
    /\ route' = Route("/patients", NULL)
    /\ UNCHANGED <<user, page, sidebar>>
    /\ UNCHANGED <<dbvars, requests>>

----------------------------------------------------------------------------
(* Text typed into a form: a string is the sequence of its characters *)

\* String.prototype.trim
RECURSIVE trimStart(_)
trimStart(s) == IF s # <<>> /\ Head(s) = " " THEN trimStart(Tail(s)) ELSE s

RECURSIVE trimEnd(_)
trimEnd(s) == IF s # <<>> /\ s[Len(s)] = " " THEN trimEnd(SubSeq(s, 1, Len(s) - 1)) ELSE s

trim(s) == trimEnd(trimStart(s))

\* the typed value sent as it is
AsTyped(s) == {s}

\* value || null : the empty string is the only falsy string; {} is null, {v} is v
OrNull(s) == IF s = <<>> THEN {} ELSE {s}

\* what a user types into a text input
FullNameInputs == {<<>>, <<" ">>, <<"A">>, <<" ", "A", " ">>}
OptionalInputs == {<<>>, <<" ">>, <<"A">>}

MaxRequests == 2

\* a request is told from an equal one sent earlier by its number
RequestNumber == CHOOSE n \in 1..MaxRequests : \A q \in requests : q.n # n

----------------------------------------------------------------------------
(* NewPatient *)

\* Dashboard / Patients: onClick={() => navigate('/patients/new')}
NavigateNewPatient ==
    /\ Mounted /\ page.name \in {"Dashboard", "Patients"}
    /\ route' = Route("/patients/new", NULL)
    /\ UNCHANGED <<user, page, sidebar>>
    /\ UNCHANGED <<dbvars, requests>>

\* handleChange(field, value): setFormData((prev) => ({...prev, [field]: value}))
NewPatientHandleChange(field, value) ==
    /\ Mounted /\ page.name = "NewPatient"
    /\ page' = [page EXCEPT !.formData[field] = value]
    /\ UNCHANGED <<user, route, sidebar>>
    /\ UNCHANGED <<dbvars, requests>>

\* the object handed to .from('patients').insert(...); phone stands for the eight
\* optional fields, which all take the form  formData.x || null
NewPatientPayload(u, formData) ==
    [psychologist_id |-> u,
     full_name |-> trim(formData.full_name),
     phone |-> OrNull(formData.phone),
     status |-> formData.status]

\* a guard that does not trim
NameMissingUntrimmed(formData) == formData.full_name = <<>>

\* !formData.full_name.trim()
NameMissing(formData) == trim(formData.full_name) = <<>>

\* a form whose submit button is never disabled
NewPatientAlwaysEnabled ==
    /\ Mounted /\ page.name = "NewPatient"
    /\ page.formData.full_name # <<>>

\* the form can be submitted: the submit button is enabled and the required
\* full_name input is not empty
NewPatientCanSubmit ==
    /\ Mounted /\ page.name = "NewPatient"
    /\ ~page.loading
    /\ page.formData.full_name # <<>>

\* handleSubmit up to its await
NewPatientHandleSubmit ==
    /\ NewPatientCanSubmit
    /\ Cardinality(requests) < MaxRequests
    /\ IF user = NULL
       THEN UNCHANGED <<page, requests>>
       ELSE IF NameMissing(page.formData)
       THEN /\ page' = [page EXCEPT !.toast = "Nome obrigatorio"]
            /\ UNCHANGED requests
       ELSE /\ page' = [page EXCEPT !.loading = TRUE]
            /\ requests' = requests \cup
                  {[n |-> RequestNumber, form |-> "NewPatient", owner |-> "mounted", caller |-> user,
                    row |-> NewPatientPayload(user, page.formData)]}
    /\ UNCHANGED <<user, route, sidebar>>
    /\ UNCHANGED dbvars

\* the statement a patients request runs: id is DEFAULT gen_random_uuid()
NewPatientStatement(q, id) ==
    [id |-> id, psychologist_id |-> q.row.psychologist_id, status |-> {q.row.status},
     updated_at |-> {}]

\* a handler without the finally block
NewPatientNoFinally(p, error) ==
    [p EXCEPT !.toast = IF error THEN "Erro ao cadastrar" ELSE "Paciente cadastrado!"]

\* the state updates of try / catch / finally: toast(...) and setLoading(false)
NewPatientSettled(p, error) ==
    [p EXCEPT !.toast = IF error THEN "Erro ao cadastrar" ELSE "Paciente cadastrado!",
              !.loading = FALSE]

\* handleSubmit after its await: the request reaches the backend (ok) or fails on
\* the way; then the try / catch / finally of the handler
NewPatientSettle(q, ok) ==
    /\ q \in requests /\ q.form = "NewPatient"
    /\ requests' = requests \ {q}
    /\ IF ok
       THEN \E id \in PatientIds \ Ids(patients) : PatientsInsert(q.caller, NewPatientStatement(q, id))
       ELSE UNCHANGED dbvars
    /\ LET error == ~ok \/ resp'.err # "none"
       IN  IF q.owner = "unloaded"
           THEN UNCHANGED <<route, page>>
           ELSE /\ IF error THEN UNCHANGED route
                   ELSE \E r \in resp'.rows : route' = Route("/patients/:id", r.id)
                /\ IF q.owner = "mounted"
                   THEN page' = NewPatientSettled(page, error)
                   ELSE UNCHANGED page
    /\ UNCHANGED <<user, sidebar>>

----------------------------------------------------------------------------
(* PatientDetail: the new-record dialog *)

\* the page is past its render guards: not loading and a patient is set
PatientShown == Mounted /\ page.name = "PatientDetail" /\ ~page.loading /\ page.patient # {}

\* Dialog open={isNewRecordOpen} onOpenChange={setIsNewRecordOpen}; the Cancelar button
SetIsNewRecordOpen(open) ==
    /\ PatientShown
    /\ page.isNewRecordOpen # open
    /\ page' = [page EXCEPT !.isNewRecordOpen = open]
    /\ UNCHANGED <<user, route, sidebar>>
    /\ UNCHANGED <<dbvars, requests>>

\* handleNewRecordChange(field, value)
HandleNewRecordChange(field, value) ==
    /\ PatientShown /\ page.isNewRecordOpen
    /\ page' = [page EXCEPT !.newRecord[field] = value]
    /\ UNCHANGED <<user, route, sidebar>>
    /\ UNCHANGED <<dbvars, requests>>

\* the object handed to .from('patient_records').insert(...); main_complaint stands
\* for the six optional text fields, which all take the form  newRecord.x || null
NewRecordPayload(u, patient, newRecord) ==
    [patient_id |-> patient.id,
     psychologist_id |-> u,
     session_type |-> newRecord.session_type,
     main_complaint |-> OrNull(newRecord.main_complaint)]

\* a handler that submits whatever is on the page
NoGuard(u, patient) == FALSE

\* if (!user || !patient) return
CreateRecordBlocked(u, patient) == u = NULL \/ patient = {}

\* handleCreateRecord up to its await
HandleCreateRecord ==
    /\ PatientShown /\ page.isNewRecordOpen
    /\ ~page.savingRecord
    /\ Cardinality(requests) < MaxRequests
    /\ IF CreateRecordBlocked(user, page.patient)
       THEN UNCHANGED <<page, requests>>
       ELSE /\ page' = [page EXCEPT !.savingRecord = TRUE]
            /\ requests' = requests \cup
                  {[n |-> RequestNumber, form |-> "NewRecord", owner |-> "mounted", caller |-> user,
                    row |-> NewRecordPayload(user, Val(page.patient), page.newRecord)]}
    /\ UNCHANGED <<user, route, sidebar>>
    /\ UNCHANGED dbvars

\* the statement a patient_records request runs: id is DEFAULT gen_random_uuid()
NewRecordStatement(q, id) ==
    [id |-> id, patient_id |-> q.row.patient_id, psychologist_id |-> q.row.psychologist_id,
     session_type |-> {q.row.session_type}, updated_at |-> {}]

\* a handler that resets the form on both paths
CreateRecordResetAlways(p, error) ==
    [p EXCEPT !.toast = IF error THEN "Erro" ELSE "Prontuario criado!",
              !.isNewRecordOpen = FALSE,
              !.newRecord = [session_type |-> "individual", main_complaint |-> <<>>],
              !.savingRecord = FALSE]

\* the state updates of try / catch / finally. fetchPatientData() is called and
\* not awaited: the page is fetching again (a fetch already under way is taken to
\* answer before the new one, so only the new one is tracked)
CreateRecordSettled(p, error) ==
    IF error
    THEN [p EXCEPT !.toast = "Erro", !.savingRecord = FALSE]
    ELSE [p EXCEPT !.toast = "Prontuario criado!",
                   !.isNewRecordOpen = FALSE,
                   !.newRecord = [session_type |-> "individual", main_complaint |-> <<>>],
                   !.pc = "fetching", !.patientRes = {}, !.recordsRes = {},
                   !.savingRecord = FALSE]

\* handleCreateRecord after its await: the request reaches the backend (ok) or
\* fails on the way; then the try / catch / finally of the handler
CreateRecordSettle(q, ok) ==
    /\ q \in requests /\ q.form = "NewRecord"
    /\ requests' = requests \ {q}
    /\ IF ok
       THEN \E id \in RecordIds \ Ids(patient_records) :
               RecordsInsert(q.caller, NewRecordStatement(q, id))
       ELSE UNCHANGED dbvars
    /\ LET error == ~ok \/ resp'.err # "none"
       IN  IF q.owner = "mounted"
           THEN page' = CreateRecordSettled(page, error)
           ELSE UNCHANGED page
    /\ UNCHANGED <<user, route, sidebar>>

----------------------------------------------------------------------------
(* Auth *)

\* what is typed into the Auth form: an email stands for the account it names,
\* every account has the password "secret"
AuthEmails == Users
AuthPasswords == {"secret", "123456"}
AuthNames == {" ", "Ana"}

\* the characters of a full name
Chars(name) ==
    CASE name = "" -> <<>>
      [] name = " " -> <<" ">>
      [] name = "Ana" -> <<"A", "n", "a">>

\* the form takes input: React runs a pending effect (the redirect of a signed-in
\* user) before it handles the next event
AuthInteractive == Mounted /\ page.name = "Auth" /\ user = NULL

\* setEmail / setPassword / setFullName from the inputs' onChange
AuthSetField(field, value) ==
    /\ AuthInteractive
    /\ field = "fullName" => ~page.isLogin
    /\ page' = [page EXCEPT ![field] = value]
    /\ UNCHANGED <<user, route, sidebar>>
    /\ UNCHANGED <<dbvars, requests>>

\* onClick={() => setIsLogin(!isLogin)}
AuthToggleIsLogin ==
    /\ AuthInteractive
    /\ page' = [page EXCEPT !.isLogin = ~page.isLogin]
    /\ UNCHANGED <<user, route, sidebar>>
    /\ UNCHANGED <<dbvars, requests>>

\* the form can be submitted: the submit button is enabled and the required
\* inputs are filled
AuthCanSubmit ==
    /\ AuthInteractive
    /\ ~page.loading
    /\ page.email # "" /\ page.password # ""
    /\ ~page.isLogin => page.fullName # ""

\* handleSubmit up to its await: setLoading(true), then signIn or signUp is called;
\* a blank name in sign-up mode ends the handler with the toast and loading false
AuthHandleSubmit ==
    /\ AuthCanSubmit
    /\ Cardinality(requests) < MaxRequests
    /\ IF ~page.isLogin /\ trim(Chars(page.fullName)) = <<>>
       THEN /\ page' = [page EXCEPT !.toast = "Nome obrigatorio", !.loading = FALSE]
            /\ UNCHANGED requests
       ELSE /\ page' = [page EXCEPT !.loading = TRUE]
            /\ requests' = requests \cup
                  {[n |-> RequestNumber, form |-> "Auth", owner |-> "mounted",
                    call |-> IF page.isLogin THEN "signIn" ELSE "signUp",
                    email |-> page.email, password |-> page.password,
                    fullName |-> IF page.isLogin THEN "" ELSE page.fullName]}
    /\ UNCHANGED <<user, route, sidebar>>
    /\ UNCHANGED dbvars

\* the state updates after the await: the toasts of try / catch, setLoading(false)
AuthSettled(p, call, error) ==
    [p EXCEPT !.toast = IF error THEN (IF call = "signIn" THEN "Erro ao entrar"
                                       ELSE "Erro ao cadastrar")
                        ELSE IF call = "signUp" THEN "Conta criada com sucesso!"
                        ELSE @,
              !.loading = FALSE]

\* useAuth().signIn(email, password) answering: a session for the account when the
\* password is right
AuthSignInSettle(q, ok) ==
    /\ q \in requests /\ q.form = "Auth" /\ q.call = "signIn"
    /\ requests' = requests \ {q}
    /\ LET error == ~ok \/ q.email \notin auth_users \/ q.password # "secret"
       IN  /\ user' = IF error \/ q.owner = "unloaded" THEN user ELSE q.email
           /\ page' = IF q.owner = "mounted" THEN AuthSettled(page, "signIn", error) ELSE page
    /\ UNCHANGED <<route, sidebar>>
    /\ UNCHANGED dbvars

\* useAuth().signUp(email, password, fullName) answering: the account is created
\* with full_name in its metadata, and the session starts when the backend
\* returns one (it does not when the email has to be confirmed first)
AuthSignUpSettle(q, ok, session) ==
    /\ q \in requests /\ q.form = "Auth" /\ q.call = "signUp"
    /\ requests' = requests \ {q}
    /\ IF ok THEN SignUp(q.email, {q.fullName}) ELSE UNCHANGED dbvars
    /\ LET error == ~ok \/ resp'.err # "none"
       IN  /\ user' = IF error \/ ~session \/ q.owner = "unloaded" THEN user ELSE q.email
           /\ page' = IF q.owner = "mounted" THEN AuthSettled(page, "signUp", error) ELSE page
    /\ UNCHANGED <<route, sidebar>>

----------------------------------------------------------------------------
(* Spec: authenticated clients send statements on patients and             *)
(* patient_records to the REST endpoint; the payloads vary the key and     *)
(* ownership columns.                                                      *)

OwnPatientsInsertInputs ==
    [id : PatientIds, psychologist_id : Callers, status : {{}}, updated_at : {{}}]
OwnPatientsSetInputs ==
    OneColumn([id : Opt(PatientIds), psychologist_id : Opt(Users), status : {{}},
               updated_at : {{}}])
OwnRecordsInsertInputs ==
    [id : RecordIds, patient_id : PatientIds, psychologist_id : Callers,
     session_type : {{}}, updated_at : {{}}]
OwnRecordsSetInputs ==
    OneColumn([id : Opt(RecordIds), patient_id : Opt(PatientIds), psychologist_id : Opt(Users),
               session_type : {{}}, updated_at : {{}}])

Next ==
    \/ \E id \in Users : SignUp(id, {}) /\ UNCHANGED appvars
    \/ \E id \in Users : DeleteUser(id) /\ UNCHANGED appvars
    \/ \E uid \in Users, p \in OwnPatientsInsertInputs : PatientsInsert(uid, p) /\ UNCHANGED appvars
    \/ \E uid \in Users : PatientsSelect(uid, {}) /\ UNCHANGED appvars
    \/ \E uid \in Users, w \in Opt(PatientIds), s \in OwnPatientsSetInputs :
          PatientsUpdate(uid, w, s) /\ UNCHANGED appvars
    \/ \E uid \in Users, w \in Opt(PatientIds) : PatientsDelete(uid, w) /\ UNCHANGED appvars
    \/ \E uid \in Users, p \in OwnRecordsInsertInputs : RecordsInsert(uid, p) /\ UNCHANGED appvars
    \/ \E uid \in Users : RecordsSelect(uid, {}) /\ UNCHANGED appvars
    \/ \E uid \in Users, w \in Opt(RecordIds), s \in OwnRecordsSetInputs :
          RecordsUpdate(uid, w, s) /\ UNCHANGED appvars
    \/ \E uid \in Users, w \in Opt(RecordIds) : RecordsDelete(uid, w) /\ UNCHANGED appvars

Spec == Init /\ [][Next]_vars

----------------------------------------------------------------------------
(* Properties of Spec *)

OwnedTables == {"patients", "patient_records"}
TableRows(t) == IF t = "patients" THEN patients ELSE patient_records

\* C1 (read isolation): a SELECT on patients or patient_records issued by an
\* authenticated caller returns only rows whose psychologist_id is the caller,
\* whatever the WHERE clause and in every reachable state of the tables.
C1_ReadIsolation ==
    /\ (resp.op = "select" /\ resp.table \in OwnedTables /\ resp.caller \in Users)
          => \A r \in resp.rows : r.psychologist_id = resp.caller
    /\ \A uid \in Users :
          /\ \A w \in Opt(PatientIds) : \A r \in PatientsSelectRows(uid, w) : r.psychologist_id = uid
          /\ \A w \in Opt(RecordIds) : \A r \in RecordsSelectRows(uid, w) : r.psychologist_id = uid

\* a SELECT returned rows while the table also held a row of another user
C1_Witness ==
    /\ resp.op = "select" /\ resp.table = "patients" /\ resp.caller \in Users
    /\ resp.rows # {}
    /\ \E r \in patients : r.psychologist_id # resp.caller

PatientsInsertValid(p) ==
    /\ p.id \notin Ids(patients)
    /\ p.psychologist_id \in auth_users
    /\ PatientsStatusCheck(PatientsNewRow(p.psychologist_id, p))

RecordsInsertValid(p) ==
    /\ p.id \notin Ids(patient_records)
    /\ p.patient_id \in Ids(patients)
    /\ p.psychologist_id \in auth_users
    /\ RecordsSessionTypeCheck(RecordsNewRow(p.psychologist_id, p))

C2_Step ==
    /\ (resp'.op = "insert" /\ resp'.table = "patients") =>
          \A uid \in Users, p \in OwnPatientsInsertInputs :
             PatientsInsert(uid, p) =>
                IF p.psychologist_id # uid
                THEN resp'.err = "rls" /\ UNCHANGED <<patients, patient_records>>
                ELSE PatientsInsertValid(p) =>
                        /\ resp'.err = "none"
                        /\ patients' = patients \cup {PatientsNewRow(uid, p)}
    /\ (resp'.op = "insert" /\ resp'.table = "patient_records") =>
          \A uid \in Users, p \in OwnRecordsInsertInputs :
             RecordsInsert(uid, p) =>
                IF p.psychologist_id # uid
                THEN resp'.err = "rls" /\ UNCHANGED <<patients, patient_records>>
                ELSE RecordsInsertValid(p) =>
                        /\ resp'.err = "none"
                        /\ patient_records' = patient_records \cup {RecordsNewRow(uid, p)}

\* C2 (insert check): an INSERT into patients or patient_records by authenticated
\* caller u whose new row has psychologist_id other than u is rejected with an
\* error and leaves both tables unchanged; with psychologist_id = u and valid
\* column values (free id, existing references, allowed value) it is accepted.
C2_InsertCheck == [][C2_Step]_vars

\* an INSERT was rejected by the policy while the table held rows
C2_Witness ==
    /\ resp.op = "insert" /\ resp.table = "patient_records" /\ resp.err = "rls"
    /\ patient_records # {}

C3_Step ==
    \A t \in OwnedTables :
       (resp'.op \in {"update", "delete"} /\ resp'.table = t /\ resp'.caller \in Users) =>
          /\ \A r \in TableRows(t) : r.psychologist_id # resp'.caller => r \in TableRows(t)'
          /\ \A r \in TableRows(t)' : r.psychologist_id # resp'.caller => r \in TableRows(t)

\* C3 (write isolation): an UPDATE or DELETE issued by authenticated caller u
\* against patients (or patient_records) changes or removes, in that table, only
\* rows whose psychologist_id is u; the rows of other users in that table are
\* the same before and after.
C3_WriteIsolation == [][C3_Step]_vars

\* an UPDATE or DELETE affected rows while another user's rows were in the table
C3_Witness ==
    /\ resp.op \in {"update", "delete"} /\ resp.table = "patients" /\ resp.err = "none"
    /\ resp.rows # {}
    /\ \E r \in patients : r.psychologist_id # resp.caller

\* C4 (owner is the creator, permanently): every row of patients and
\* patient_records has psychologist_id equal to the authenticated user who
\* inserted it, after any sequence of statements.
C4_OwnerIsCreator ==
    \A r \in patients \cup patient_records : r.psychologist_id = r.inserted_by

\* an UPDATE tried to move a row to another owner and was rejected
C4_Witness ==
    /\ resp.op = "update" /\ resp.table \in OwnedTables /\ resp.err = "rls"
    /\ TableRows(resp.table) # {}

----------------------------------------------------------------------------
(* SpecAnon: signed-in users fill the tables with their own rows; a client  *)
(* without a session (auth.uid() is NULL) sends every kind of statement.    *)

AllTables == {"profiles", "patients", "patient_records"}

AnonProfilesInsertInputs == [id : Callers, full_name : {{"Ana"}}, updated_at : {{}}]
AnonProfilesSetInputs ==
    OneColumn([id : Opt(Users), full_name : Opt({"Ana"}), updated_at : {{}}])

NextAnon ==
    \/ \E id \in Users : SignUp(id, {}) /\ UNCHANGED appvars
    \/ \E id \in Users : DeleteUser(id) /\ UNCHANGED appvars
    \/ \E uid \in Users : \E p \in {q \in OwnPatientsInsertInputs : q.psychologist_id = uid} :
          PatientsInsert(uid, p) /\ UNCHANGED appvars
    \/ \E uid \in Users : \E p \in {q \in OwnRecordsInsertInputs : q.psychologist_id = uid} :
          RecordsInsert(uid, p) /\ UNCHANGED appvars
    \/ \E p \in OwnPatientsInsertInputs : PatientsInsert(NULL, p) /\ UNCHANGED appvars
    \/ \E w \in Opt(PatientIds) : PatientsSelect(NULL, w) /\ UNCHANGED appvars
    \/ \E w \in Opt(PatientIds), s \in OwnPatientsSetInputs :
          PatientsUpdate(NULL, w, s) /\ UNCHANGED appvars
    \/ \E w \in Opt(PatientIds) : PatientsDelete(NULL, w) /\ UNCHANGED appvars
    \/ \E p \in OwnRecordsInsertInputs : RecordsInsert(NULL, p) /\ UNCHANGED appvars
    \/ \E w \in Opt(RecordIds) : RecordsSelect(NULL, w) /\ UNCHANGED appvars
    \/ \E w \in Opt(RecordIds), s \in OwnRecordsSetInputs :
          RecordsUpdate(NULL, w, s) /\ UNCHANGED appvars
    \/ \E w \in Opt(RecordIds) : RecordsDelete(NULL, w) /\ UNCHANGED appvars
    \/ \E p \in AnonProfilesInsertInputs : ProfilesInsert(NULL, p) /\ UNCHANGED appvars
    \/ \E w \in Opt(Users) : ProfilesSelect(NULL, w) /\ UNCHANGED appvars
    \/ \E w \in Opt(Users), s \in AnonProfilesSetInputs :
          ProfilesUpdate(NULL, w, s) /\ UNCHANGED appvars
    \/ \E w \in Opt(Users) : ProfilesDelete(NULL, w) /\ UNCHANGED appvars

SpecAnon == Init /\ [][NextAnon]_vars

C5_Step ==
    (resp'.caller = NULL /\ resp'.table \in AllTables) =>
       /\ resp'.rows = {}
       /\ UNCHANGED <<profiles, patients, patient_records>>
       /\ resp'.op = "insert" => resp'.err # "none"

\* C5 (unauthenticated access): a statement sent with no authenticated identity
\* reads no row of profiles, patients or patient_records, and its INSERT, UPDATE
\* or DELETE leaves the three tables as they were.
C5_Unauthenticated == [][C5_Step]_vars

\* an unauthenticated statement was answered while all three tables held rows
C5_Witness ==
    /\ resp.caller = NULL /\ resp.table \in AllTables
    /\ resp.op \in {"select", "update", "delete"}
    /\ profiles # {} /\ patients # {} /\ patient_records # {}

----------------------------------------------------------------------------
(* SpecProfiles: users sign up (with or without a name in the metadata),    *)
(* are deleted, and send statements on profiles.                           *)

ProfilesInsertInputs == [id : Callers, full_name : Opt({"Ana"}), updated_at : {{}}]
ProfilesSetInputs ==
    OneColumn([id : Opt(Users), full_name : Opt(Names), updated_at : {{}}])

NextProfiles ==
    \/ \E id \in Users, meta \in Opt(Names) : SignUp(id, meta) /\ UNCHANGED appvars
    \/ \E id \in Users : DeleteUser(id) /\ UNCHANGED appvars
    \/ \E uid \in Users, p \in ProfilesInsertInputs : ProfilesInsert(uid, p) /\ UNCHANGED appvars
    \/ \E uid \in Users, w \in Opt(Users) : ProfilesSelect(uid, w) /\ UNCHANGED appvars
    \/ \E uid \in Users, w \in Opt(Users), s \in ProfilesSetInputs :
          ProfilesUpdate(uid, w, s) /\ UNCHANGED appvars
    \/ \E uid \in Users, w \in Opt(Users) : ProfilesDelete(uid, w) /\ UNCHANGED appvars

SpecProfiles == Init /\ [][NextProfiles]_vars

C7_Step ==
    (resp'.table = "profiles" /\ resp'.caller \in Users) =>
       /\ \A r \in resp'.rows : r.id = resp'.caller
       /\ \A r \in profiles : r.id # resp'.caller => r \in profiles'
       /\ \A r \in profiles' : r.id # resp'.caller => r \in profiles
       /\ resp'.op = "delete" => resp'.rows = {} /\ profiles' = profiles
       /\ resp'.op = "update" => Ids(profiles') = Ids(profiles)

\* C7 (profile isolation): the rows an authenticated caller u reads, inserts or
\* updates in profiles all have id = u and the profiles of other users are left
\* as they were; a DELETE on profiles removes nothing; an UPDATE never changes
\* which ids have a profile.
C7_ProfileIsolation == [][C7_Step]_vars

\* a user's UPDATE reached a profile while another user's profile existed
C7_Witness ==
    /\ resp.op = "update" /\ resp.table = "profiles" /\ resp.caller \in Users
    /\ resp.rows # {}
    /\ \E r \in profiles : r.id # resp.caller

C8_Step ==
    /\ Ids(profiles') = auth_users'
    /\ \A id \in auth_users' : Cardinality({r \in profiles' : r.id = id}) = 1
    /\ \A id \in Users, meta \in Opt(Names) :
          (SignUp(id, meta) /\ id \notin auth_users) =>
             /\ id \in auth_users'
             /\ \E r \in profiles' \ profiles :
                   /\ r.id = id
                   /\ r.full_name = IF Given(meta) THEN Val(meta) ELSE DefaultFullName
    /\ ~(Ids(profiles) \subseteq Ids(profiles')) =>
          resp'.op = "delete" /\ resp'.table = "auth.users"

\* C8 (auto-created profile): the step that inserts a row into auth.users also
\* creates the profile with the same id, its full_name being the metadata's
\* full_name or the default when the metadata has none; after every step each
\* auth user has exactly one profile and each profile belongs to an auth user,
\* and a profile disappears only in a step that deletes its user.
C8_AutoProfile == [][C8_Step]_vars

\* a user signed up without a name and has the default one, and another user
\* has since been deleted
C8_Witness ==
    /\ \E r \in profiles : r.full_name = DefaultFullName
    /\ resp.op = "delete" /\ resp.table = "auth.users"
    /\ profiles # {}

----------------------------------------------------------------------------
(* SpecTime: one user writes to the three tables while time passes; INSERT  *)
(* and UPDATE may supply updated_at themselves.                            *)

\* an updated_at that a statement supplies: the earliest or the latest instant
SuppliedTimes == {0, MaxClock}

TimePatientsInsertInputs ==
    [id : {"p1"}, psychologist_id : {"u1"}, status : {{}}, updated_at : Opt(SuppliedTimes)]
TimePatientsSetInputs ==
    [id : {{}}, psychologist_id : {{}}, status : Opt({"inactive"}), updated_at : Opt(SuppliedTimes)]
TimeRecordsInsertInputs ==
    [id : {"r1"}, patient_id : {"p1"}, psychologist_id : {"u1"}, session_type : {{}},
     updated_at : Opt(SuppliedTimes)]
TimeRecordsSetInputs ==
    [id : {{}}, patient_id : {{}}, psychologist_id : {{}}, session_type : Opt({"group"}),
     updated_at : Opt(SuppliedTimes)]
TimeProfilesSetInputs ==
    [id : {{}}, full_name : Opt({"Ana"}), updated_at : Opt(SuppliedTimes)]

NextTime ==
    \/ Tick /\ UNCHANGED appvars
    \/ SignUp("u1", {}) /\ UNCHANGED appvars
    \/ \E p \in TimePatientsInsertInputs : PatientsInsert("u1", p) /\ UNCHANGED appvars
    \/ \E s \in TimePatientsSetInputs : PatientsUpdate("u1", {}, s) /\ UNCHANGED appvars
    \/ PatientsDelete("u1", {}) /\ UNCHANGED appvars
    \/ \E p \in TimeRecordsInsertInputs : RecordsInsert("u1", p) /\ UNCHANGED appvars
    \/ \E s \in TimeRecordsSetInputs : RecordsUpdate("u1", {}, s) /\ UNCHANGED appvars
    \/ \E s \in TimeProfilesSetInputs : ProfilesUpdate("u1", {}, s) /\ UNCHANGED appvars

SpecTime == Init /\ [][NextTime]_vars

AnyTableRows(t) == IF t = "profiles" THEN profiles ELSE TableRows(t)

\* an UPDATE step: every row it wrote is in the table with updated_at = now()
C9_UpdateSetsNow ==
    \A t \in AllTables :
       (resp'.op = "update" /\ resp'.table = t /\ resp'.err = "none" /\ now' = now) =>
          /\ \A n \in resp'.rows : n.updated_at = now /\ n \in AnyTableRows(t)'
          /\ AnyTableRows(t)' \ AnyTableRows(t) \subseteq resp'.rows

\* an UPDATE that supplies updated_at itself: the supplied value is overridden
C9_SuppliedOverridden ==
    /\ \A s \in TimePatientsSetInputs :
          (Given(s.updated_at) /\ PatientsUpdate("u1", {}, s)) =>
             \A n \in patients' : n.updated_at = now
    /\ \A s \in TimeRecordsSetInputs :
          (Given(s.updated_at) /\ RecordsUpdate("u1", {}, s)) =>
             \A n \in patient_records' : n.updated_at = now
    /\ \A s \in TimeProfilesSetInputs :
          (Given(s.updated_at) /\ ProfilesUpdate("u1", {}, s)) =>
             \A n \in profiles' : n.updated_at = now

\* an INSERT stores the supplied updated_at, or the column default now()
C9_InsertKeepsSupplied ==
    /\ \A p \in TimePatientsInsertInputs :
          (PatientsInsert("u1", p) /\ resp'.err = "none") =>
             \A n \in resp'.rows :
                n.updated_at = IF Given(p.updated_at) THEN Val(p.updated_at) ELSE now
    /\ \A p \in TimeRecordsInsertInputs :
          (RecordsInsert("u1", p) /\ resp'.err = "none") =>
             \A n \in resp'.rows :
                n.updated_at = IF Given(p.updated_at) THEN Val(p.updated_at) ELSE now

\* two successive UPDATEs of a row: the second updated_at is not before the first
C9_Monotonic ==
    (/\ resp.op = "update" /\ resp.err = "none"
     /\ resp'.op = "update" /\ resp'.err = "none"
     /\ resp'.table = resp.table) =>
       \A o \in resp.rows \cap AnyTableRows(resp.table) : \A n \in resp'.rows :
          o.id = n.id => n.updated_at >= o.updated_at

\* C9 (automatic timestamp update): every successful UPDATE of a row of profiles,
\* patients or patient_records leaves the row with updated_at = now(), also when
\* the statement supplies updated_at; an INSERT keeps the supplied value (the
\* trigger does not run); and as now() does not go back, the updated_at written
\* by an UPDATE is never before the one written by the previous UPDATE of the row.
C9_UpdatedAt ==
    [][C9_UpdateSetsNow /\ C9_SuppliedOverridden /\ C9_InsertKeepsSupplied /\ C9_Monotonic]_vars

\* a patient row was updated after time had passed and carries the time of the update
C9_Witness ==
    /\ resp.op = "update" /\ resp.table = "patients" /\ resp.err = "none"
    /\ now > 0
    /\ \E r \in resp.rows : r \in patients /\ r.updated_at = now

----------------------------------------------------------------------------
(* SpecDomain: one user inserts and updates patients and records with the   *)
(* values the forms offer, with other text values and with NULL.           *)

DomainStatusInputs == NewPatientStatusOptions \cup {"archived", NULL}
DomainSessionTypeInputs == NewRecordSessionTypeOptions \cup {"online", NULL}

DomainPatientsInsertInputs ==
    [id : PatientIds, psychologist_id : {"u1"}, status : Opt(DomainStatusInputs),
     updated_at : {{}}]
DomainPatientsSetInputs ==
    [id : {{}}, psychologist_id : {{}}, status : Opt(DomainStatusInputs), updated_at : {{}}]
DomainRecordsInsertInputs ==
    [id : {"r1"}, patient_id : {"p1"}, psychologist_id : {"u1"},
     session_type : Opt(DomainSessionTypeInputs), updated_at : {{}}]
DomainRecordsSetInputs ==
    [id : {{}}, patient_id : {{}}, psychologist_id : {{}},
     session_type : Opt(DomainSessionTypeInputs), updated_at : {{}}]

NextDomain ==
    \/ SignUp("u1", {}) /\ UNCHANGED appvars
    \/ \E p \in DomainPatientsInsertInputs : PatientsInsert("u1", p) /\ UNCHANGED appvars
    \/ \E w \in Opt(PatientIds), s \in DomainPatientsSetInputs :
          PatientsUpdate("u1", w, s) /\ UNCHANGED appvars
    \/ \E w \in Opt(PatientIds) : PatientsDelete("u1", w) /\ UNCHANGED appvars
    \/ \E p \in DomainRecordsInsertInputs : RecordsInsert("u1", p) /\ UNCHANGED appvars
    \/ \E s \in DomainRecordsSetInputs : RecordsUpdate("u1", {}, s) /\ UNCHANGED appvars

SpecDomain == Init /\ [][NextDomain]_vars

\* C10 (value domains): every stored patients.status is one of 'active',
\* 'inactive', 'discharged' and every stored patient_records.session_type is one
\* of 'individual', 'couple', 'family', 'group'; the values the forms offer lie
\* inside these sets.
C10_ValueDomains ==
    /\ \A r \in patients : r.status \in PatientStatuses
    /\ \A r \in patient_records : r.session_type \in SessionTypes
    /\ NewPatientStatusOptions \subseteq PatientStatuses
    /\ NewRecordSessionTypeOptions \subseteq SessionTypes

----------------------------------------------------------------------------
(* SpecPages: two users sign up and write rows through the REST endpoint   *)
(* while one browser session signs in, opens the pages and signs out.      *)

PagesPatientsInsertInputs ==
    {p \in [id : PatientIds, psychologist_id : Users, status : {{}}, updated_at : {{}}] :
        (p.id = "p1") = (p.psychologist_id = "u1")}
PagesRecordsInsertInputs ==
    [id : {"r1"}, patient_id : PatientIds, psychologist_id : Users, session_type : {{}},
     updated_at : {{}}]

Routes ==
    {Route(p, NULL) : p \in {"/auth", "/dashboard", "/patients"}}
       \cup {Route("/patients/:id", id) : id \in PatientIds}

\* both users have signed up
InitPages ==
    /\ auth_users = Users
    /\ profiles = {[id |-> u, full_name |-> DefaultFullName, updated_at |-> 0] : u \in Users}
    /\ patients = {}
    /\ patient_records = {}
    /\ now = 0
    /\ resp = Response("insert", "auth.users", "service", "none",
                       {[id |-> "u2", full_name |-> DefaultFullName, updated_at |-> 0]})
    /\ InitApp

NextPages ==
    \/ \E p \in PagesPatientsInsertInputs : PatientsInsert(p.psychologist_id, p) /\ UNCHANGED appvars
    \/ \E p \in PagesRecordsInsertInputs : RecordsInsert(p.psychologist_id, p) /\ UNCHANGED appvars
    \/ \E uid \in Users : PatientsDelete(uid, {}) /\ UNCHANGED appvars
    \/ Render
    \/ \E r \in Routes : OpenUrl(r)
    \/ signIn("u1")
    \/ AuthRedirect
    \/ \E path \in {"/dashboard", "/patients"} : SidebarNavigate(path)
    \/ HandleSignOut
    \/ signOut
    \/ HandleSignOutNavigate
    \/ DashboardEffect
    \/ \E ok \in BOOLEAN : FetchDashboardPatients(ok)
    \/ \E ok \in BOOLEAN : FetchDashboardTotal(ok)
    \/ \E ok \in BOOLEAN : FetchDashboardActive(ok)
    \/ \E ok \in BOOLEAN : FetchDashboardRecords(ok)
    \/ \E i \in 1..RecentLimit : DashboardOpenPatient(i)
    \/ PatientsEffect
    \/ \E ok \in BOOLEAN : FetchPatients(ok)
    \/ \E i \in 1..Cardinality(PatientIds) : PatientsOpenPatient(i)
    \/ PatientDetailEffect
    \/ \E ok \in BOOLEAN : FetchPatientQuery(ok)
    \/ \E ok \in BOOLEAN : FetchRecordsQuery(ok)
    \/ FetchPatientDataResolve
    \/ PatientDetailBack

SpecPages == InitPages /\ [][NextPages]_vars

\* every database row held in the state of a page, fetched or being fetched
PageRows(pg) ==
    IF pg.name = "Dashboard" THEN Range(pg.patients) \cup Range(pg.patientsData)
    ELSE IF pg.name = "Patients" THEN Range(pg.patients) \cup Range(pg.filteredPatients)
    ELSE IF pg.name = "PatientDetail" THEN
        pg.patient \cup Range(pg.records)
           \cup UNION {res.data : res \in pg.patientRes}
           \cup UNION {Range(res.data) : res \in pg.recordsRes}
    ELSE {}

OwnPatients(u) == {r \in patients : r.psychologist_id = u}
OwnRecords(u) == {r \in patient_records : r.psychologist_id = u}

C6_RowsOwned ==
    /\ user' # NULL => \A r \in PageRows(page') : r.psychologist_id = user'
    /\ \A r \in PageRows(page') \ PageRows(page) : user # NULL /\ r.psychologist_id = user

C6_Lists ==
    /\ FetchPatients(TRUE) => Range(page'.patients) = OwnPatients(user)
    /\ FetchDashboardPatients(TRUE) => Range(page'.patientsData) \subseteq OwnPatients(user)
    /\ FetchDashboardTotal(TRUE) => page'.totalPatients = {Cardinality(OwnPatients(user))}
    /\ FetchDashboardActive(TRUE) =>
          page'.activePatients = {Cardinality({r \in OwnPatients(user) : r.status = "active"})}
    /\ FetchDashboardRecords(TRUE) =>
          page'.stats.totalRecords = Cardinality(OwnRecords(user))

C6_ForeignDetail ==
    /\ (FetchPatientQuery(TRUE) /\ \E r \in patients : r.id = page.id /\ r.psychologist_id # user)
          => \A res \in page'.patientRes : res.data = {}
    /\ (/\ FetchPatientDataResolve
        /\ \A res \in page.patientRes : ~res.error /\ res.data = {}
        /\ \A res \in page.recordsRes : ~res.error)
          => /\ route'.path = "/patients"
             /\ page'.patient = page.patient /\ page'.records = page.records

\* C6 (isolation does not depend on the application): the page queries carry no
\* psychologist_id filter, yet every row a page holds for signed-in user u is
\* owned by u, the lists and counts are exactly those of u's rows, and the
\* detail page of a patient owned by another user receives no patient row and
\* navigates to /patients without setting patient or records.
C6_PagesIsolated == [][C6_RowsOwned /\ C6_Lists /\ C6_ForeignDetail]_vars

\* the detail page of another user's patient has just redirected to /patients
C6_Witness ==
    /\ user # NULL
    /\ page.name = "PatientDetail" /\ page.pc = "done" /\ page.patient = {}
    /\ route.path = "/patients"
    /\ \E r \in patients : r.id = page.id /\ r.psychologist_id # user

----------------------------------------------------------------------------
(* SpecNewPatient: a psychologist on the NewPatient form, over the database *)

NewPatientRoutes == {Route("/patients/new", NULL), Route("/patients", NULL)}

NewPatientChanges ==
    ({"full_name"} \X FullNameInputs) \cup ({"phone"} \X OptionalInputs)
        \cup ({"status"} \X NewPatientStatusOptions)

\* a submission left pending by a page that has gone settles before the next one
NextNewPatient ==
    \/ DeleteUser("u1") /\ UNCHANGED appvars
    \/ Render
    \/ \E r \in NewPatientRoutes : OpenUrl(r)
    \/ signIn("u1")
    \/ AuthRedirect
    \/ NavigateNewPatient
    \/ \E c \in NewPatientChanges : NewPatientHandleChange(c[1], c[2])
    \/ NewPatientHandleSubmit /\ requests = {}
    \/ \E q \in requests, ok \in BOOLEAN : NewPatientSettle(q, ok)

SpecNewPatient == InitPages /\ [][NextNewPatient]_vars

\* C11 (guarded creation): NewPatient.handleSubmit sends no INSERT when no user is
\* signed in or when full_name is empty after trimming; with an empty trimmed name
\* it shows the 'Nome obrigatorio' toast, does not navigate, leaves formData as it
\* was and leaves loading false.
C11_Step ==
    NewPatientHandleSubmit =>
        /\ (user = NULL \/ trim(page.formData.full_name) = <<>>) =>
              /\ requests' = requests
              /\ UNCHANGED dbvars
        /\ user = NULL => page' = page /\ route' = route
        /\ (user # NULL /\ trim(page.formData.full_name) = <<>>) =>
              /\ page'.toast = "Nome obrigatorio"
              /\ route' = route
              /\ page'.formData = page.formData
              /\ ~page'.loading
        /\ requests' # requests =>
              /\ user # NULL
              /\ trim(page.formData.full_name) # <<>>

C11_GuardedCreation == [][C11_Step]_vars

\* a whitespace-only name was submitted by a signed-in user: the toast is up and
\* nothing was sent
C11_Witness ==
    /\ user # NULL
    /\ page.name = "NewPatient"
    /\ page.toast = "Nome obrigatorio"
    /\ page.formData.full_name = <<" ">>
    /\ requests = {}
    /\ patients = {}

----------------------------------------------------------------------------
(* Properties of Spec: records and the patients they reference *)

\* the patients row a record references
PatientOf(r) == {p \in patients : p.id = r.patient_id}

\* C12 (record ownership matches patient ownership): in every reachable state
\* every patient_records row has the psychologist_id of the patients row its
\* patient_id references.
C12_RecordOwnership ==
    \A r \in patient_records : \A p \in PatientOf(r) : r.psychologist_id = p.psychologist_id

\* C13 (non-interference): a statement issued by user A leaves the set and the
\* contents of the patients and patient_records rows that any other user B can
\* read as they were.
C13_Step ==
    resp'.caller \in Users =>
        \A B \in Users \ {resp'.caller} :
            /\ PatientsSelectRows(B, {})' = PatientsSelectRows(B, {})
            /\ RecordsSelectRows(B, {})' = RecordsSelectRows(B, {})

C13_NonInterference == [][C13_Step]_vars

\* C14 (referential integrity with cascade): every patient_records row references
\* an existing patients row; a DELETE on patients removes exactly the records
\* whose patient_id is a deleted patient; deleting an auth user removes that
\* user's profile, patients and records.
C14_Referenced == \A r \in patient_records : PatientOf(r) # {}

C14_Step ==
    /\ (resp'.op = "delete" /\ resp'.table = "patients") =>
          /\ patients' = patients \ resp'.rows
          /\ patient_records' = {c \in patient_records : c.patient_id \notin Ids(resp'.rows)}
    /\ (resp'.op = "delete" /\ resp'.table = "auth.users") =>
          \A id \in auth_users \ auth_users' :
              /\ id \notin Ids(profiles')
              /\ \A r \in patients' \cup patient_records' : r.psychologist_id # id

C14_ReferentialIntegrity == []C14_Referenced /\ [][C14_Step]_vars

\* a patient with records has just been deleted by its owner while a record of
\* another patient is still stored
C14_Witness ==
    /\ resp.op = "delete" /\ resp.table = "patients" /\ resp.rows # {}
    /\ patient_records # {}
    /\ C14_Referenced

----------------------------------------------------------------------------
(* Properties of SpecNewPatient *)

Spaces(n) == [i \in 1..n |-> " "]

\* t is s without its leading and trailing white space
IsTrimOf(t, s) ==
    /\ t # <<>> => t[1] # " " /\ t[Len(t)] # " "
    /\ \E a, b \in 0..Len(s) : s = Spaces(a) \o t \o Spaces(b)

\* C15 (insert payload): when handleSubmit sends the insert, the row has
\* psychologist_id equal to the current user's id, full_name equal to the trimmed
\* form value, status equal to the form's status, and an optional field equal to
\* the form value when that is not empty and null when it is the empty string; the
\* statement the backend runs carries that owner and status.
C15_Sent ==
    NewPatientHandleSubmit =>
        \A q \in requests' \ requests :
            /\ q.form = "NewPatient"
            /\ q.row.psychologist_id = user /\ q.caller = user
            /\ IsTrimOf(q.row.full_name, page.formData.full_name)
            /\ q.row.status = page.formData.status
            /\ page.formData.phone = <<>> => q.row.phone = {}
            /\ page.formData.phone # <<>> => q.row.phone = {page.formData.phone}

C15_Stored ==
    \A q \in requests :
        (NewPatientSettle(q, TRUE) /\ resp'.err = "none") =>
            /\ Cardinality(resp'.rows) = 1
            /\ patients' = patients \cup resp'.rows
            /\ \A r \in resp'.rows :
                  r.psychologist_id = q.row.psychologist_id /\ r.status = q.row.status

C15_InsertPayload == [][C15_Sent /\ C15_Stored]_vars

\* a submission is pending whose name was typed with surrounding blanks and whose
\* optional field was left empty
C15_Witness ==
    /\ page.name = "NewPatient" /\ page.loading
    /\ page.formData.full_name = <<" ", "A", " ">>
    /\ page.formData.phone = <<>>
    /\ \E q \in requests :
          /\ q.owner = "mounted"
          /\ q.row.full_name = <<"A">>
          /\ q.row.phone = {}
          /\ q.row.status = "discharged"

\* C16 (creation outcome): when the insert succeeds NewPatient shows the success
\* toast and navigates to /patients/<id of the inserted row>; when it returns an
\* error or the request fails it shows the 'Erro ao cadastrar' toast and does
\* not navigate; formData is unchanged and loading is false afterwards.
C16_Step ==
    \A q \in requests, ok \in BOOLEAN :
        (NewPatientSettle(q, ok) /\ q.owner = "mounted") =>
            /\ page'.formData = page.formData
            /\ ~page'.loading
            /\ patients' # patients =>
                  /\ page'.toast = "Paciente cadastrado!"
                  /\ \E r \in patients' \ patients :
                        /\ patients' = patients \cup {r}
                        /\ route' = Route("/patients/:id", r.id)
            /\ patients' = patients =>
                  /\ page'.toast = "Erro ao cadastrar"
                  /\ route' = route

C16_CreationOutcome == [][C16_Step]_vars

\* the insert went through: the success toast is up, loading is over and the
\* location is the new patient's page
C16_Witness ==
    /\ page.name = "NewPatient" /\ ~page.loading
    /\ page.toast = "Paciente cadastrado!"
    /\ route.path = "/patients/:id" /\ route.id \in Ids(patients)
    /\ resp.op = "insert" /\ resp.table = "patients" /\ resp.err = "none"

----------------------------------------------------------------------------
(* SpecNewRecord: a psychologist on the page of one of their patients, the *)
(* new-record dialog and the database                                      *)

\* both users have signed up, u1 has registered patient p1 and u2 patient p2
InitNewRecord ==
    /\ auth_users = Users
    /\ profiles = {[id |-> u, full_name |-> DefaultFullName, updated_at |-> 0] : u \in Users}
    /\ patients = {[id |-> "p1", psychologist_id |-> "u1", status |-> "active",
                    created_at |-> 0, updated_at |-> 0, inserted_by |-> "u1"],
                   [id |-> "p2", psychologist_id |-> "u2", status |-> "active",
                    created_at |-> 0, updated_at |-> 0, inserted_by |-> "u2"]}
    /\ patient_records = {}
    /\ now = 0
    /\ resp = Response("insert", "patients", "u2", "none",
                       {r \in patients : r.psychologist_id = "u2"})
    /\ InitApp

\* the session type is switched between the default and one other option, the
\* optional text between empty and filled
NewRecordChanges ==
    ({"session_type"} \X {"individual", "couple"}) \cup ({"main_complaint"} \X {<<>>, <<"A">>})

\* a submission left pending by a page that has gone settles before the next one
NextNewRecord ==
    \/ PatientsDelete("u1", {"p1"}) /\ UNCHANGED appvars
    \/ Render
    \/ \E id \in PatientIds : OpenUrl(Route("/patients/:id", id))
    \/ signIn("u1")
    \/ AuthRedirect
    \/ HandleSignOut
    \/ signOut
    \/ HandleSignOutNavigate
    \/ PatientDetailEffect
    \/ \E ok \in BOOLEAN : FetchPatientQuery(ok)
    \/ \E ok \in BOOLEAN : FetchRecordsQuery(ok)
    \/ FetchPatientDataResolve
    \/ \E open \in BOOLEAN : SetIsNewRecordOpen(open)
    \/ \E c \in NewRecordChanges : HandleNewRecordChange(c[1], c[2])
    \/ HandleCreateRecord /\ requests = {}
    \/ \E q \in requests, ok \in BOOLEAN : CreateRecordSettle(q, ok)

SpecNewRecord == InitNewRecord /\ [][NextNewRecord]_vars

\* C17 (session-record creation): handleCreateRecord sends no INSERT unless a user
\* is signed in and a patient is loaded; the row it sends has patient_id equal to
\* the loaded patient's id and psychologist_id equal to the current user's id, and
\* an empty optional text field is sent as null.
C17_Step ==
    HandleCreateRecord =>
        /\ (user = NULL \/ page.patient = {}) => requests' = requests /\ page' = page
        /\ UNCHANGED dbvars
        /\ \A q \in requests' \ requests :
              /\ user # NULL
              /\ \E p \in page.patient : q.row.patient_id = p.id
              /\ q.row.psychologist_id = user /\ q.caller = user
              /\ q.row.session_type = page.newRecord.session_type
              /\ page.newRecord.main_complaint = <<>> => q.row.main_complaint = {}
              /\ page.newRecord.main_complaint # <<>> =>
                    q.row.main_complaint = {page.newRecord.main_complaint}

C17_RecordCreation == [][C17_Step]_vars

\* a record of the loaded patient is being saved with its optional text left empty
C17_Witness ==
    /\ page.name = "PatientDetail" /\ page.savingRecord
    /\ page.newRecord.main_complaint = <<>>
    /\ \E q \in requests :
          /\ q.form = "NewRecord" /\ q.owner = "mounted"
          /\ q.row.patient_id = page.id
          /\ q.row.psychologist_id = user
          /\ q.row.main_complaint = {}

\* C18 (session-record creation outcome): after a successful insert the dialog is
\* closed, the newRecord form is back at its defaults and the patient data is
\* being fetched again, and the list that fetch sets holds the records stored
\* for the patient, the new one included; after a failed insert the dialog, the
\* form contents and the records list are as they were and the error toast is
\* shown; on both paths savingRecord is false.
C18_Settle ==
    \A q \in requests, ok \in BOOLEAN :
        (CreateRecordSettle(q, ok) /\ q.owner = "mounted") =>
            /\ ~page'.savingRecord
            /\ page'.records = page.records
            /\ patient_records' # patient_records =>
                  /\ ~page'.isNewRecordOpen
                  /\ page'.newRecord = [session_type |-> "individual", main_complaint |-> <<>>]
                  /\ page'.toast = "Prontuario criado!"
                  /\ page'.pc = "fetching" /\ page'.patientRes = {} /\ page'.recordsRes = {}
            /\ patient_records' = patient_records =>
                  /\ page'.isNewRecordOpen = page.isNewRecordOpen
                  /\ page'.newRecord = page.newRecord
                  /\ page'.toast = "Erro"
                  /\ page'.pc = page.pc

C18_Refetch ==
    /\ FetchRecordsQuery(TRUE) =>
          \A res \in page'.recordsRes :
              Range(res.data) =
                  {r \in patient_records : r.patient_id = page.id /\ r.psychologist_id = user}
    /\ (FetchPatientDataResolve /\ page'.records # page.records) =>
          \A res \in page.recordsRes : page'.records = res.data

----------------------------------------------------------------------------
(* SpecSubmit: the three forms that submit to the backend (Auth, NewPatient, *)
(* the new-record dialog), with navigation between their pages             *)

\* u1 has signed up and registered patient p1; u2 has no account yet
InitSubmit ==
    /\ auth_users = {"u1"}
    /\ profiles = {[id |-> "u1", full_name |-> DefaultFullName, updated_at |-> 0]}
    /\ patients = {[id |-> "p1", psychologist_id |-> "u1", status |-> "active",
                    created_at |-> 0, updated_at |-> 0, inserted_by |-> "u1"]}
    /\ patient_records = {}
    /\ now = 0
    /\ resp = Response("insert", "patients", "u1", "none", patients)
    /\ InitApp

SubmitRoutes == {Route("/patients/new", NULL), Route("/patients/:id", "p1")}

AuthChanges ==
    ({"email"} \X AuthEmails) \cup ({"password"} \X AuthPasswords) \cup ({"fullName"} \X AuthNames)

NextSubmit ==
    \/ Render
    \/ \E r \in SubmitRoutes : OpenUrl(r)
    \/ AuthRedirect
    \/ SidebarNavigate("/dashboard")
    \/ NavigateNewPatient
    \/ \E c \in AuthChanges : AuthSetField(c[1], c[2])
    \/ AuthToggleIsLogin
    \/ AuthHandleSubmit
    \/ \E q \in requests, ok \in BOOLEAN : AuthSignInSettle(q, ok)
    \/ \E q \in requests, ok, session \in BOOLEAN : AuthSignUpSettle(q, ok, session)
    \/ NewPatientHandleChange("full_name", <<"A">>)
    \/ NewPatientHandleSubmit
    \/ \E q \in requests, ok \in BOOLEAN : NewPatientSettle(q, ok)
    \/ PatientDetailEffect
    \/ FetchPatientQuery(TRUE)
    \/ FetchRecordsQuery(TRUE)
    \/ FetchPatientDataResolve
    \/ SetIsNewRecordOpen(TRUE)
    \/ HandleCreateRecord
    \/ \E q \in requests, ok \in BOOLEAN : CreateRecordSettle(q, ok)

SpecSubmit == InitSubmit /\ [][NextSubmit]_vars

\* the submissions of the mounted page that have not been answered
Pending == {q \in requests : q.owner = "mounted"}

\* the flag that disables the submit button of the mounted page
Submitting ==
    IF page.name \in {"Auth", "NewPatient"} THEN page.loading
    ELSE IF page.name = "PatientDetail" THEN page.savingRecord
    ELSE FALSE

\* C19 as stated: at most one submit request is in flight at any time (requests
\* of a document that has been unloaded are not counted).
C19_OneInFlight == Cardinality({q \in requests : q.owner # "unloaded"}) <= 1

\* C19 (no duplicate submission), per mounted form: the mounted form has at most
\* one unanswered submission, its submit button is disabled exactly while that
\* submission is unanswered, a submission adds one request and its answer uses
\* that request up with at most one row inserted and at most one account created.
C19_State ==
    /\ Cardinality(Pending) <= 1
    /\ Submitting <=> Pending # {}
    /\ \A q \in Pending :
          q.form = (IF page.name = "PatientDetail" THEN "NewRecord" ELSE page.name)

C19_Sent ==
    requests' \ (requests \cup Orphaned(requests, "unmounted") \cup Orphaned(requests, "unloaded"))

C19_Step ==
    /\ Cardinality(C19_Sent) <= 1
    /\ C19_Sent # {} => Pending = {} /\ ~Submitting /\ C19_Sent = Pending'
    /\ Cardinality(patients' \ patients) + Cardinality(patient_records' \ patient_records)
          + Cardinality(auth_users' \ auth_users) <= 1
    /\ (patients' # patients \/ patient_records' # patient_records \/ auth_users' # auth_users)
          => Cardinality(requests') < Cardinality(requests)

C19_NoDuplicateSubmission == []C19_State /\ [][C19_Step]_vars

\* a submission of the mounted NewPatient form is unanswered while one made
\* before the page was left and opened again is still on its way
C19_Witness ==
    /\ page.name = "NewPatient" /\ page.loading
    /\ Cardinality(Pending) = 1
    /\ \E q \in requests : q.form = "NewPatient" /\ q.owner = "unmounted"

\* what PatientDetail renders: the spinner while loading, nothing without a patient
PatientDetailRender(p) ==
    IF p.loading THEN "spinner" ELSE IF p.patient = {} THEN "nothing" ELSE "patient"

\* C20 (missing or inaccessible id): when the patient query answers with no row and
\* neither query with an error, PatientDetail navigates to /patients, sets neither
\* patient nor records, renders nothing and loading is false; when one of the two
\* queries answers with an error, patient and records keep their values, the error
\* toast is shown and loading is false.
C20_Step ==
    FetchPatientDataResolve =>
        LET patientRes == Val(page.patientRes)
            recordsRes == Val(page.recordsRes)
        IN  /\ ~page'.loading
            /\ (patientRes.error \/ recordsRes.error) =>
                  /\ page'.patient = page.patient /\ page'.records = page.records
                  /\ page'.toast = "Erro"
                  /\ route' = route
            /\ (~patientRes.error /\ ~recordsRes.error /\ patientRes.data = {}) =>
                  /\ route' = Route("/patients", NULL)
                  /\ page'.patient = page.patient /\ page'.records = page.records
                  /\ page'.toast = page.toast
                  /\ page.patient = {} => PatientDetailRender(page') = "nothing"

\* a patient query answers with the rows the caller may read that have the route id
C20_Query ==
    FetchPatientQuery(TRUE) =>
        \A res \in page'.patientRes :
            res.data = {r \in patients : r.id = page.id /\ r.psychologist_id = user}

-----------------------------------------------------------------------------
(* Spec: the Dashboard of a psychologist with more patients than the list shows *)

\* patients one psychologist registers within one instant of the clock
MaxPerInstant == 2

\* the ids gen_random_uuid() gives to the patients of u1, in the order it gives
\* them; one more than the recent list holds
DashboardIds == <<"p1", "p2", "p3", "p4", "p5", "p6">>
ForeignId == "p7"

\* the database changes while the Dashboard is not on screen
DashboardAway == page.name # "Dashboard"

DashboardPatientsInsertInputs ==
    {p \in [id : Range(DashboardIds) \cup {ForeignId}, psychologist_id : Users,
            status : {{}, {"inactive"}}, updated_at : {{}}] :
        /\ p.id \notin Ids(patients)
        /\ Cardinality({r \in patients : r.psychologist_id = p.psychologist_id
                                            /\ r.created_at = now}) < MaxPerInstant
        /\ p.status # {} => p.id \in {DashboardIds[1], DashboardIds[Len(DashboardIds)]}
        /\ IF p.psychologist_id = "u1"
           THEN /\ Cardinality({r \in patients : r.psychologist_id = "u1"}) < Len(DashboardIds)
                /\ p.id = DashboardIds[Cardinality({r \in patients : r.psychologist_id = "u1"}) + 1]
           ELSE p.id = ForeignId}

\* one record of each psychologist, both on the first patient of u1
DashboardRecordsInsertInputs ==
    {p \in [id : RecordIds, patient_id : {"p1"}, psychologist_id : Users, session_type : {{}},
            updated_at : {{}}] :
        /\ p.id \notin Ids(patient_records)
        /\ p.patient_id \in Ids(patients)
        /\ (p.id = "r1") = (p.psychologist_id = "u1")}

NextDashboard ==
    \/ DashboardAway /\ \E p \in DashboardPatientsInsertInputs :
          PatientsInsert(p.psychologist_id, p) /\ UNCHANGED appvars
    \/ DashboardAway /\ \E p \in DashboardRecordsInsertInputs :
          RecordsInsert(p.psychologist_id, p) /\ UNCHANGED appvars
    \/ DashboardAway /\ Tick /\ UNCHANGED appvars
    \/ Render
    \/ OpenUrl(Route("/auth", NULL))
    \/ signIn("u1")
    \/ AuthRedirect
    \/ DashboardEffect
    \/ \E ok \in BOOLEAN : FetchDashboardPatients(ok)
    \/ \E ok \in BOOLEAN : FetchDashboardTotal(ok)
    \/ \E ok \in BOOLEAN : FetchDashboardActive(ok)
    \/ \E ok \in BOOLEAN : FetchDashboardRecords(ok)

SpecDashboard == InitPages /\ [][NextDashboard]_vars

\* the length of the list that shows `shown` of `all` rows
Shortest(shown, all) == IF all < shown THEN all ELSE shown

\* list holds, most recent first, the RecentLimit most recent rows of own
C21_Recent(list, own) ==
    /\ Len(list) = Shortest(RecentLimit, Cardinality(own))
    /\ Range(list) \subseteq own
    /\ \A i, j \in DOMAIN list : i # j => list[i] # list[j]
    /\ \A r \in own \ Range(list) : \A i \in DOMAIN list : r.created_at <= list[i].created_at
    /\ \A i \in 1..(Len(list) - 1) : list[i].created_at >= list[i + 1].created_at

\* the step on which the first query answers without error, and the step on
\* which the last one does after the two counts before it did
C21_Step ==
    /\ (/\ page.name = "Dashboard" /\ page.pc = "patients"
        /\ page'.name = "Dashboard" /\ page'.pc = "totalPatients") =>
          C21_Recent(page'.patientsData, OwnPatients(user))
    /\ (FetchDashboardRecords(TRUE) /\ page.totalPatients # {} /\ page.activePatients # {}) =>
          /\ ~page'.loading
          /\ Len(page'.patients) <= RecentLimit
          /\ C21_Recent(page'.patients, OwnPatients(user))
          /\ page'.stats.totalPatients = Cardinality(OwnPatients(user))
          /\ page'.stats.activePatients =
                Cardinality({r \in OwnPatients(user) : r.status = "active"})
          /\ page'.stats.totalRecords = Cardinality(OwnRecords(user))

\* C21: when the four queries of fetchDashboardData have all answered without
\* error (the database unchanged meanwhile), the Dashboard shows at most 5
\* patients, all of them the caller's, none of the caller's other patients
\* created later than a listed one, in non-increasing created_at order; and
\* totalPatients, activePatients and totalRecords are the numbers of the
\* caller's patients, of those with status 'active', and of the caller's records
C21_RecentList == [][C21_Step]_vars

\* the caller has six patients registered at three different instants, one of
\* them inactive, another psychologist has a later patient and a record on the
\* caller's first patient; the Dashboard shows five patients and the counts 6, 5, 1
C21_Witness ==
    /\ page.name = "Dashboard" /\ page.pc = "done" /\ ~page.loading
    /\ user = "u1"
    /\ Cardinality(OwnPatients(user)) = RecentLimit + 1
    /\ Len(page.patients) = RecentLimit
    /\ page.patients[1].created_at > page.patients[RecentLimit].created_at
    /\ \E r \in patients : /\ r.psychologist_id # user
                           /\ r.created_at > page.patients[RecentLimit].created_at
    /\ page.stats.totalPatients = RecentLimit + 1
    /\ page.stats.activePatients = RecentLimit
    /\ \E r \in patient_records : r.psychologist_id # user
    /\ page.stats.totalRecords = 1

-----------------------------------------------------------------------------
(* SpecRedirect: signing in, signing up and signing out, with the pages of *)
(* the sidebar; React runs the effect of a rendered Auth page              *)

RedirectRoutes == {Route(p, NULL) : p \in {"/auth", "/dashboard", "/patients"}}

\* the right password is typed; a sign-in that fails is a call answered with an error
RedirectChanges ==
    ({"email"} \X AuthEmails) \cup {<<"password", "secret">>, <<"fullName", "Ana">>}

\* the effect of a commit runs before the document takes the next event, so a
\* location is typed only when no effect of the Auth page is pending
NextRedirect ==
    \/ Render
    \/ ~AuthEffectPending /\ \E r \in RedirectRoutes : OpenUrl(r)
    \/ AuthRedirect
    \/ \E path \in {"/dashboard", "/patients"} : SidebarNavigate(path)
    \/ \E c \in RedirectChanges : AuthSetField(c[1], c[2])
    \/ AuthToggleIsLogin
    \/ AuthHandleSubmit
    \/ \E q \in requests, ok \in BOOLEAN : AuthSignInSettle(q, ok)
    \/ \E q \in requests, ok, session \in BOOLEAN : AuthSignUpSettle(q, ok, session)
    \/ HandleSignOut
    \/ signOut
    \/ HandleSignOutNavigate

SpecRedirect == InitSubmit /\ [][NextRedirect]_vars /\ WF_vars(AuthRedirect)

\* a call of navigate: the location changes under the rendered page, the
\* document is not loaded anew
Navigates(path) == route' # route /\ route'.path = path /\ page' = page /\ ~OpenUrl(route')

C22_Step ==
    /\ (Mounted /\ page.name = "Auth" /\ \E r \in RedirectRoutes : Navigates(r.path)) =>
          user # NULL /\ route'.path = "/dashboard"
    /\ (page.name = "Auth" /\ Navigates("/dashboard")) => user # NULL
    /\ Navigates("/auth") => sidebar = "resolved" /\ user = NULL /\ sidebar' = "idle"
    /\ (sidebar = "awaiting" /\ sidebar' = "resolved") => user' = NULL /\ route' = route

\* the Auth page is on screen and user is not null
C22_Authenticated == Mounted /\ page.name = "Auth" /\ user # NULL

\* C22: the Auth page, rendered while user is not null (it was mounted so or a
\* sign-in or sign-up has just set user), navigates to /dashboard, and it never
\* navigates while user is null; the application navigates to /auth only from
\* handleSignOut after its signOut call has resolved and user is null
C22_RedirectAndSignOut ==
    /\ [][C22_Step]_vars
    /\ C22_Authenticated ~> (route.path = "/dashboard")

\* a sign-up that started a session has been answered on the Auth page and the
\* page has navigated to /dashboard
C22_Witness ==
    /\ page.name = "Auth" /\ page.toast = "Conta criada com sucesso!"
    /\ user = "u2"
    /\ route.path = "/dashboard"

\* the sidebar's sign-out has navigated to /auth from the Dashboard
C22_SignedOut ==
    /\ page.name = "Dashboard" /\ route.path = "/auth"
    /\ user = NULL /\ sidebar = "idle"
    /\ "u2" \in auth_users

====
